---- MODULE Spec2Model ----
(***************************************************************************)
(* QModel of QtORM (qmodel.cpp): an ordered collection of fields, the      *)
(* designated primary key, the pending batch of row snapshots, and the     *)
(* SQL statements that save, saveBatch and remove hand to the connection.  *)
(*                                                                         *)
(* A QField is a handle on shared private data: the copy kept in           *)
(* d->primaryKey and the copy kept in d->fields denote the same field, so  *)
(* primaryKey is modelled as a position in fields (0 = invalid QField).    *)
(* A QVariant is a small integer, Invalid being the invalid QVariant.      *)
(* The code never inspects a value, it only copies it; each field is given *)
(* a value of its own so that a value bound to the wrong column shows.     *)
(***************************************************************************)
EXTENDS Integers, Sequences, FiniteSets, TLC

VARIABLES
    phase,       \* "declare" (constructor ran, fields being declared), "ready" (between calls),
                 \* "returned" (saveBatch, save or remove just returned), "crashed"
    declared,    \* the fields as they were declared, frozen by init (history)
    fields,      \* d->fields
    primaryKey,  \* d->primaryKey, as a position in fields; 0 = invalid QField
    batch,       \* d->batch: a sequence of rows, each a sequence of values
    batchCols,   \* for each batch row, the column names addInBatch took the values from (history)
    call,        \* the call that just returned and the statements it executed (history)
    trip         \* observer of the sequence save / assign / save(false) / remove (history)

vars == <<phase, declared, fields, primaryKey, batch, batchCols, call, trip>>

----------------------------------------------------------------------------
(* Bounds *)

MaxDeclared == 2
MaxBatch == 2

(* The invalid QVariant: the data of a field never assigned, and what      *)
(* QSqlQuery::lastInsertId() returns when the query inserted nothing.      *)
Invalid == 0

(* What the connection may report as last inserted id; the caller assigns  *)
(* the primary key from the same set.                                      *)
Ids == {1}

(* What the caller assigns to the field at position i                      *)
valuesFor(i, pkIdx) == IF i = pkIdx THEN Ids ELSE {i + 1}

(* What a read out of range may yield                                      *)
Garbage == {Invalid} \cup Ids

noCall == [op |-> "-", force |-> FALSE, stmts |-> <<>>]

FieldNames == <<"a", "b", "c", "d">>

----------------------------------------------------------------------------
(* The QField contract the model relies on *)

newField(name) ==
    [name |-> name, primaryKey |-> FALSE, autoIncrement |-> FALSE,
     null |-> TRUE, modified |-> FALSE, data |-> Invalid]

setPrimaryKey(f, b) == [f EXCEPT !.primaryKey = b]

setAutoIncrement(f, b) == [f EXCEPT !.autoIncrement = b]

setNull(f, b) == [f EXCEPT !.null = b]

setModified(f, b) == [f EXCEPT !.modified = b]

setRawData(f, v) == [f EXCEPT !.data = v, !.null = (v = Invalid)]

setData(f, v) == [f EXCEPT !.data = v, !.null = FALSE, !.modified = TRUE]

----------------------------------------------------------------------------
(* init *)

RECURSIVE firstPrimaryKeyFrom(_, _)
firstPrimaryKeyFrom(flds, i) ==
    IF i > Len(flds) THEN 0
    ELSE IF flds[i].primaryKey THEN i
    ELSE firstPrimaryKeyFrom(flds, i + 1)

firstPrimaryKey(flds) == firstPrimaryKeyFrom(flds, 1)

addField(flds, f) == Append(flds, f)

intField(flds, name) == addField(flds, newField(name))

(* Mutant: the id field stays where intField appended it                   *)
synthesizeAtEnd(flds) ==
    LET appended == intField(flds, "id")
        n        == Len(appended)
    IN  [appended EXCEPT ![n] = setPrimaryKey(setAutoIncrement(@, TRUE), TRUE)]

synthesizePrimaryKey(flds) ==
    LET appended == intField(flds, "id")
        n        == Len(appended)
        flagged  == [appended EXCEPT
                        ![n] = setPrimaryKey(setAutoIncrement(@, TRUE), TRUE)]
        prepended == <<flagged[n]>> \o flagged
    IN  SubSeq(prepended, 1, Len(prepended) - 1)

init ==
    /\ phase = "declare"
    /\ LET found == firstPrimaryKey(fields) IN
       IF found # 0
       THEN /\ primaryKey' = found
            /\ fields' = fields
       ELSE /\ primaryKey' = 1
            /\ fields' = synthesizePrimaryKey(fields)
    /\ declared' = fields
    /\ phase' = "ready"
    /\ UNCHANGED <<batch, batchCols, call, trip>>

(* A field declaration: stringField, intField, doubleField or              *)
(* dateTimeField, each of which only calls addField; the caller may then   *)
(* flag the returned field as primary key.                                 *)
declareField(isKey) ==
    /\ phase = "declare"
    /\ Len(fields) < MaxDeclared
    /\ fields' = [intField(fields, FieldNames[Len(fields) + 1]) EXCEPT
                     ![Len(fields) + 1] = setPrimaryKey(@, isKey)]
    /\ UNCHANGED <<phase, declared, primaryKey, batch, batchCols, call, trip>>

----------------------------------------------------------------------------
(* Statements handed to the connection *)

ExecResults ==
    {[ok |-> TRUE, id |-> i] : i \in Ids} \cup {[ok |-> FALSE, id |-> Invalid]}

statement(kind, cols, groups, binds, where, res) ==
    [kind |-> kind, cols |-> cols, placeholders |-> groups,
     binds |-> binds, where |-> where, ok |-> res.ok, lastInsertId |-> res.id]

(* The value bound to the WHERE clause's placeholder: the last bound value *)
whereBind(s) ==
    IF s.kind \in {"UPDATE", "DELETE"} /\ Len(s.binds) > 0
    THEN s.binds[Len(s.binds)]
    ELSE Invalid

----------------------------------------------------------------------------
(* Observer of the sequence: save on a null primary key with a successful  *)
(* insert (stage 1), assignment of a field other than the primary key      *)
(* (stage 2), save(false) (stage 3), remove (stage 4).  It records the id  *)
(* the connection reported and what the two later statements bound.        *)

tripIdle ==
    [stage |-> 0, id |-> Invalid, updKind |-> "", updWhere |-> Invalid,
     delWhere |-> Invalid]

tripStart(stmts) ==
    [tripIdle EXCEPT !.stage = 1, !.id = stmts[1].lastInsertId]

tripAfterSave(t, force, pkWasNull, stmts) ==
    IF t.stage = 2 /\ ~force /\ Len(stmts) = 1
    THEN [t EXCEPT !.stage = 3, !.updKind = stmts[1].kind,
                   !.updWhere = whereBind(stmts[1])]
    ELSE IF pkWasNull /\ Len(stmts) = 1 /\ stmts[1].ok
    THEN tripStart(stmts)
    ELSE tripIdle

tripAfterAssign(t, i, pkIdx) ==
    IF t.stage = 1 /\ i # pkIdx THEN [t EXCEPT !.stage = 2] ELSE tripIdle

tripAfterRemove(t, stmts) ==
    IF t.stage = 3 /\ Len(stmts) = 1
    THEN [t EXCEPT !.stage = 4, !.delWhere = whereBind(stmts[1])]
    ELSE tripIdle

----------------------------------------------------------------------------
(* The batch *)

isSkipped(f) == f.primaryKey /\ f.null

kept(flds) == SelectSeq(flds, LAMBDA f : ~isSkipped(f))

snapshotRow(flds) ==
    LET ks == kept(flds) IN [k \in 1..Len(ks) |-> ks[k].data]

fieldList(flds) ==
    LET ks == kept(flds) IN [k \in 1..Len(ks) |-> ks[k].name]

(* "?, ?" wrapped as "(?, ?), ", repeated once per batch row, the last     *)
(* ", " removed: one group per row, each holding one "?" per listed column *)
placeholders(flds, b) ==
    LET group == Len(kept(flds)) IN [i \in 1..Len(b) |-> group]

(* The rows of the batch that are shorter than the column list: binding    *)
(* them reads batch.at(i).at(k) out of range                               *)
shortRows(flds, b) ==
    LET n == Len(kept(flds)) IN {i \in 1..Len(b) : Len(b[i]) < n}

bindRow(flds, row, junk) ==
    LET n == Len(kept(flds)) IN
    [k \in 1..n |-> IF k <= Len(row) THEN row[k] ELSE junk]

RECURSIVE bindValues(_, _, _, _)
bindValues(flds, b, g, i) ==
    IF i > Len(b) THEN <<>>
    ELSE bindRow(flds, b[i], IF i \in DOMAIN g THEN g[i] ELSE Invalid)
            \o bindValues(flds, b, g, i + 1)

insertStatement(flds, b, g, res) ==
    statement("INSERT", fieldList(flds), placeholders(flds, b),
              bindValues(flds, b, g, 1), "", res)

(* Mutant: the last inserted id is not stored                              *)
afterInsertNoId(flds, pkIdx, res) == flds

afterInsert(flds, pkIdx, res) ==
    [flds EXCEPT ![pkIdx] = setRawData(@, res.id)]

(* Every way saveBatch can end on fields flds and batch b.  A read out of  *)
(* range either aborts the process or yields an arbitrary value.           *)
saveBatchOutcomes(flds, pkIdx, b) ==
    IF Len(b) = 0
    THEN {[crashed |-> FALSE, fields |-> flds, stmts |-> <<>>]}
    ELSE LET short == shortRows(flds, b) IN
         {[crashed |-> FALSE,
           fields  |-> afterInsert(flds, pkIdx, res),
           stmts   |-> <<insertStatement(flds, b, g, res)>>] :
              res \in ExecResults, g \in [short -> Garbage]}
         \cup
         (IF short # {}
          THEN {[crashed |-> TRUE, fields |-> flds, stmts |-> <<>>]}
          ELSE {})

clearBatch ==
    /\ phase = "ready"
    /\ batch' = <<>>
    /\ batchCols' = <<>>
    /\ trip' = tripIdle
    /\ UNCHANGED <<phase, declared, fields, primaryKey, call>>

addInBatch ==
    /\ phase = "ready"
    /\ Len(batch) < MaxBatch
    /\ batch' = Append(batch, snapshotRow(fields))
    /\ batchCols' = Append(batchCols, fieldList(fields))
    /\ trip' = tripIdle
    /\ UNCHANGED <<phase, declared, fields, primaryKey, call>>

saveBatch ==
    /\ phase = "ready"
    /\ \E o \in saveBatchOutcomes(fields, primaryKey, batch) :
          /\ phase' = IF o.crashed THEN "crashed" ELSE "returned"
          /\ fields' = o.fields
          /\ call' = [op |-> "saveBatch", force |-> FALSE, stmts |-> o.stmts]
    /\ trip' = tripIdle
    /\ UNCHANGED <<declared, primaryKey, batch, batchCols>>

----------------------------------------------------------------------------
(* save *)

(* Mutant: forceInsert is ignored                                          *)
insertPathNoForce(forceInsert, flds, pkIdx) == flds[pkIdx].null

insertPath(forceInsert, flds, pkIdx) == forceInsert \/ flds[pkIdx].null

modifiedFields(flds) == SelectSeq(flds, LAMBDA f : f.modified)

setClause(flds) ==
    LET ms == modifiedFields(flds) IN [k \in 1..Len(ms) |-> ms[k].name]

(* Mutant: the primary key is bound first                                  *)
updateBindsKeyFirst(flds, pkIdx) ==
    LET ms == modifiedFields(flds) IN
    <<flds[pkIdx].data>> \o [k \in 1..Len(ms) |-> ms[k].data]

updateBinds(flds, pkIdx) ==
    LET ms == modifiedFields(flds) IN
    [k \in 1..Len(ms) |-> ms[k].data] \o <<flds[pkIdx].data>>

updateStatement(flds, pkIdx, res) ==
    statement("UPDATE", setClause(flds), <<>>, updateBinds(flds, pkIdx),
              flds[pkIdx].name, res)

ExecOnly == {[ok |-> b, id |-> Invalid] : b \in BOOLEAN}

save(forceInsert) ==
    /\ phase = "ready"
    /\ IF insertPath(forceInsert, fields, primaryKey)
       THEN LET cleared == <<>>
                added   == Append(cleared, snapshotRow(fields))
            IN  /\ batch' = added
                /\ batchCols' = <<fieldList(fields)>>
                /\ \E o \in saveBatchOutcomes(fields, primaryKey, added) :
                      /\ phase' = IF o.crashed THEN "crashed" ELSE "returned"
                      /\ fields' = o.fields
                      /\ call' = [op |-> "save", force |-> forceInsert,
                                  stmts |-> o.stmts]
                      /\ trip' = tripAfterSave(trip, forceInsert,
                                               fields[primaryKey].null, o.stmts)
       ELSE \E res \in ExecOnly :
                LET stmts == <<updateStatement(fields, primaryKey, res)>> IN
                /\ call' = [op |-> "save", force |-> forceInsert, stmts |-> stmts]
                /\ trip' = tripAfterSave(trip, forceInsert,
                                         fields[primaryKey].null, stmts)
                /\ phase' = "returned"
                /\ UNCHANGED <<fields, batch, batchCols>>
    /\ UNCHANGED <<declared, primaryKey>>

----------------------------------------------------------------------------
(* remove *)

deleteStatement(flds, pkIdx, res) ==
    statement("DELETE", <<>>, <<>>, <<flds[pkIdx].data>>, flds[pkIdx].name, res)

(* Mutant: the primary key is nulled only when the DELETE succeeded        *)
afterRemoveIfOk(flds, pkIdx, res) ==
    IF res.ok THEN [flds EXCEPT ![pkIdx] = setNull(@, TRUE)] ELSE flds

afterRemove(flds, pkIdx, res) ==
    [flds EXCEPT ![pkIdx] = setNull(@, TRUE)]

remove ==
    /\ phase = "ready"
    /\ \E res \in ExecOnly :
          LET stmts == <<deleteStatement(fields, primaryKey, res)>> IN
          /\ fields' = afterRemove(fields, primaryKey, res)
          /\ call' = [op |-> "remove", force |-> FALSE, stmts |-> stmts]
          /\ trip' = tripAfterRemove(trip, stmts)
    /\ phase' = "returned"
    /\ UNCHANGED <<declared, primaryKey, batch, batchCols>>

----------------------------------------------------------------------------
(* resetModified, and the assignment of a field through its handle *)

resetModified ==
    /\ phase = "ready"
    /\ fields' = [i \in 1..Len(fields) |-> setModified(fields[i], FALSE)]
    /\ trip' = tripIdle
    /\ UNCHANGED <<phase, declared, primaryKey, batch, batchCols, call>>

assign(i, v) ==
    /\ phase = "ready"
    /\ fields' = [fields EXCEPT ![i] = setData(@, v)]
    /\ trip' = tripAfterAssign(trip, i, primaryKey)
    /\ UNCHANGED <<phase, declared, primaryKey, batch, batchCols, call>>

(* The call returns to the caller; its QSqlQuery goes out of scope         *)
return ==
    /\ phase = "returned"
    /\ phase' = "ready"
    /\ call' = noCall
    /\ UNCHANGED <<declared, fields, primaryKey, batch, batchCols, trip>>

----------------------------------------------------------------------------

Init ==
    /\ phase = "declare"
    /\ declared = <<>>
    /\ fields = <<>>
    /\ primaryKey = 0
    /\ batch = <<>>
    /\ batchCols = <<>>
    /\ call = noCall
    /\ trip = tripIdle

Next ==
    \/ \E isKey \in BOOLEAN : declareField(isKey)
    \/ init
    \/ \E i \in 1..Len(fields) : \E v \in valuesFor(i, primaryKey) : assign(i, v)
    \/ resetModified
    \/ clearBatch
    \/ addInBatch
    \/ saveBatch
    \/ \E forceInsert \in BOOLEAN : save(forceInsert)
    \/ remove
    \/ return

Spec == Init /\ [][Next]_vars

----------------------------------------------------------------------------
(* Vocabulary of the properties *)

Range(seq) == {seq[k] : k \in 1..Len(seq)}

posOf(flds, name) == CHOOSE i \in 1..Len(flds) : flds[i].name = name

RECURSIVE Flatten(_)
Flatten(rows) == IF rows = <<>> THEN <<>> ELSE Head(rows) \o Flatten(Tail(rows))

keyFlagged(flds) == {i \in 1..Len(flds) : flds[i].primaryKey}

(* A step in which the handler op runs, from its call to its return        *)
Ran(op) == phase = "ready" /\ phase' \in {"returned", "crashed"} /\ call'.op = op

Returned(op) == phase = "returned" /\ call.op = op

(* C1: all row snapshots held in the batch have the same number of values. *)
C1_BatchSameArity ==
    \A i, j \in 1..Len(batch) : Len(batch[i]) = Len(batch[j])

(* C2: saveBatch on a non-empty batch of B rows issues exactly one INSERT  *)
(* with B placeholder groups of F placeholders, F the number of listed     *)
(* columns, and binds B*F values, the k-th value of row r being the value  *)
(* that addInBatch snapshotted in row r for the k-th listed column.        *)
(* Stated for the calls that return and read every row within its length.  *)
C2_InsertBindsSnapshots ==
    ( /\ Returned("saveBatch")
      /\ batch # <<>>
      /\ Len(call.stmts) = 1 =>
            \A r \in 1..Len(batch) : Len(batch[r]) >= Len(call.stmts[1].cols) ) =>
        /\ Len(call.stmts) = 1
        /\ LET s == call.stmts[1]
               B == Len(batch)
               F == Len(s.cols)
           IN  /\ s.kind = "INSERT"
               /\ Len(s.placeholders) = B
               /\ \A r \in 1..B : s.placeholders[r] = F
               /\ Len(s.binds) = B * F
               /\ \A r \in 1..B : \A k \in 1..F :
                     \E p \in 1..Len(batch[r]) :
                        /\ batchCols[r][p] = s.cols[k]
                        /\ batch[r][p] = s.binds[(r - 1) * F + k]

(* C3: when the INSERT fails inside saveBatch, or inside the insert path   *)
(* of save, the call returns normally and leaves the batch (for save: the  *)
(* batch its insert path built) and every field, the primary key included, *)
(* as they were before the call.                                           *)
C3_FailedInsertLeavesState ==
    [][ ( /\ (Ran("saveBatch") \/ Ran("save"))
          /\ Len(call'.stmts) = 1
          /\ call'.stmts[1].kind = "INSERT"
          /\ ~call'.stmts[1].ok )
        => /\ phase' = "returned"
           /\ fields' = fields
           /\ call'.op = "saveBatch" => batch' = batch ]_vars

(* C4: save(forceInsert) issues exactly one statement; it is an INSERT of  *)
(* exactly one row holding the current field values when forceInsert is    *)
(* true or the primary key is null, and an UPDATE otherwise.               *)
C4_SaveBranch ==
    [][ Ran("save") =>
        /\ phase' = "returned"
        /\ Len(call'.stmts) = 1
        /\ LET s == call'.stmts[1] IN
           IF call'.force \/ fields[primaryKey].null
           THEN /\ s.kind = "INSERT"
                /\ Len(s.placeholders) = 1
                /\ s.placeholders[1] = Len(s.cols)
                /\ Len(s.binds) = Len(s.cols)
                /\ \A i \in 1..Len(fields) :
                      ~fields[i].null => fields[i].name \in Range(s.cols)
                /\ \A k \in 1..Len(s.cols) :
                      s.binds[k] = fields[posOf(fields, s.cols[k])].data
                /\ Len(batch') = 1
           ELSE s.kind = "UPDATE" ]_vars

C4_Witness ==
    /\ Returned("save")
    /\ call.force
    /\ call.stmts[1].kind = "INSERT"
    /\ fields[primaryKey].name \in Range(call.stmts[1].cols)
    /\ Len(call.stmts[1].cols) = Len(fields)

(* C5: on the update path of save(false) the SET clause lists exactly the  *)
(* modified fields in declaration order, the bound values are their        *)
(* current values in that order followed by the primary key's value, and   *)
(* there are (number of modified fields) + 1 bound values.                 *)
C5_SelectiveUpdate ==
    [][ (Ran("save") /\ ~call'.force /\ ~fields[primaryKey].null) =>
        LET s == call'.stmts[1]
            n == Len(s.cols)
        IN  /\ s.kind = "UPDATE"
            /\ Range(s.cols) = {fields[i].name : i \in {j \in 1..Len(fields) : fields[j].modified}}
            /\ \A k, l \in 1..n :
                  k < l => posOf(fields, s.cols[k]) < posOf(fields, s.cols[l])
            /\ Len(s.binds) = n + 1
            /\ \A k \in 1..n : s.binds[k] = fields[posOf(fields, s.cols[k])].data
            /\ s.binds[n + 1] = fields[primaryKey].data
            /\ s.where = fields[primaryKey].name ]_vars

C5_Witness ==
    /\ Returned("save")
    /\ call.stmts[1].kind = "UPDATE"
    /\ call.stmts[1].cols = <<"id", "b">>
    /\ Len(fields) = 3
    /\ call.stmts[1].binds = <<fields[1].data, fields[3].data, fields[1].data>>

(* C6: for a model declared with N fields, none flagged primary key, after *)
(* init fields has N+1 members, fields[1] is the field id, flagged primary *)
(* key and auto-increment, and is pk(); the declared fields follow in      *)
(* declaration order and none of them is flagged primary key.              *)
C6_SynthesizedKeyFirst ==
    (phase # "declare" /\ keyFlagged(declared) = {}) =>
        /\ Len(fields) = Len(declared) + 1
        /\ fields[1].name = "id"
        /\ fields[1].primaryKey
        /\ fields[1].autoIncrement
        /\ primaryKey = 1
        /\ \A i \in 1..Len(declared) :
              /\ fields[i + 1].name = declared[i].name
              /\ ~fields[i + 1].primaryKey

C6_Witness ==
    /\ phase = "ready"
    /\ Len(declared) = 2
    /\ keyFlagged(declared) = {}
    /\ Len(fields) = 3

(* C7: after init exactly one member of fields is flagged primary key, it  *)
(* is pk(), and it is the only field an INSERT ever leaves out of its      *)
(* column list.                                                            *)
C7_ExactlyOneKey ==
    phase # "declare" =>
        /\ keyFlagged(fields) = {primaryKey}
        /\ \A r \in 1..Len(batchCols) : \A i \in 1..Len(fields) :
              i # primaryKey => fields[i].name \in Range(batchCols[r])

(* C8: after every remove the primary key is null, whether the DELETE      *)
(* succeeded or failed; remove issues exactly one DELETE whose single      *)
(* bound value is the primary key's value before the call, and changes no  *)
(* other field, no modified flag and not the batch.                        *)
C8_RemoveNullsKey ==
    [][ Ran("remove") =>
        /\ phase' = "returned"
        /\ fields'[primaryKey].null
        /\ Len(call'.stmts) = 1
        /\ call'.stmts[1].kind = "DELETE"
        /\ call'.stmts[1].binds = <<fields[primaryKey].data>>
        /\ call'.stmts[1].where = fields[primaryKey].name
        /\ batch' = batch
        /\ Len(fields') = Len(fields)
        /\ \A i \in 1..Len(fields) :
              /\ fields'[i].modified = fields[i].modified
              /\ i # primaryKey => fields'[i] = fields[i] ]_vars

C8_Witness ==
    /\ Returned("remove")
    /\ ~call.stmts[1].ok
    /\ call.stmts[1].binds = <<1>>
    /\ fields[primaryKey].null

(* C9: in the sequence save on a null primary key (successful insert),     *)
(* assignment of a non-key field, save(false), remove: the second save     *)
(* issues an UPDATE, and the value bound in its WHERE clause and the value *)
(* bound in the DELETE's WHERE clause are the last inserted id, which the  *)
(* insert stored into the primary key.                                     *)
C9_RoundTripSameKey ==
    /\ trip.stage \in 1..3 =>
          /\ trip.id \in Ids
          /\ ~fields[primaryKey].null
          /\ fields[primaryKey].data = trip.id
    /\ trip.stage >= 3 =>
          /\ trip.updKind = "UPDATE"
          /\ trip.updWhere = trip.id
    /\ trip.stage = 4 => trip.delWhere = trip.id

C9_Witness ==
    /\ trip.stage = 4
    /\ trip.delWhere = 1
    /\ trip.updWhere = 1

(* C10: saveBatch never changes the batch; on an empty batch it issues no  *)
(* statement and changes nothing; on a non-empty batch, whether or not an  *)
(* earlier saveBatch already ran on it, it issues one INSERT for the rows  *)
(* of the batch.                                                           *)
C10_SaveBatchKeepsBatch ==
    [][ (Ran("saveBatch") /\ phase' = "returned") =>
        /\ batch' = batch
        /\ batch = <<>> => (call'.stmts = <<>> /\ fields' = fields)
        /\ batch # <<>> =>
              /\ Len(call'.stmts) = 1
              /\ call'.stmts[1].kind = "INSERT"
              /\ Len(call'.stmts[1].placeholders) = Len(batch)
              /\ call'.stmts[1].binds = Flatten(batch) ]_vars

====
